---- MODULE Spec2Model ----
(***************************************************************************)
(* rust-dedup: scan a directory tree, group files by size and then by      *)
(* content digest, and resolve each duplicate group (dry-run / force /     *)
(* interactive).  Model of src/rust-dedup/src/{main,scanner,hasher,        *)
(* reporter}.rs.                                                           *)
(***************************************************************************)
EXTENDS Integers, Sequences, FiniteSets, TLC

\* ---------------------------------------------------------------- bounds
NumPaths == 4        \* directory entries under the root
MaxLen == 1          \* longest file content, in bytes
MaxMinSize == 1      \* --min-size ranges over 0..MaxMinSize
NarrowDigest == 2    \* digest space of the colliding-digest specification

\* ------------------------------------------------------ program constants
BufSize == 8192      \* hasher.rs: let mut buffer = [0u8; 8192]

Paths == 1..NumPaths
\* Two byte values stand for the 256 of a u8.
Bytes == {0, 1}
Radix == Cardinality(Bytes) + 1
Contents == UNION {[1..n -> Bytes] : n \in 0..MaxLen}

\* A directory entry: a regular file with its content, a directory, or an
\* entry the walk cannot stat (permission error, broken link).
Entries ==
  {[kind |-> "file", data |-> c] : c \in Contents}
    \cup {[kind |-> "dir", data |-> <<>>], [kind |-> "err", data |-> <<>>]}

VARIABLES
  fs,            \* Paths -> Entries: the tree under the root, in walk order
  rootOk,        \* the root path can be accessed
  removed,       \* paths removed from the file system by this run
  digestSpace,   \* number of distinct digest values
  min_size, dry_run, force,     \* cli.rs Args
  pc,
  files,         \* main.rs: result of scan_files
  size_groups,   \* hasher.rs: size -> sequence of paths
  candidates,    \* hasher.rs: files sharing a size with another file
  hi,            \* hasher.rs: number of candidates processed by the loop
  hash_groups,   \* hasher.rs: digest -> sequence of paths
  warned,        \* paths with a "could not hash" warning on stderr
  order,         \* reporter.rs: iteration order of the duplicates map
  gi,            \* reporter.rs: index of the current group in order
  di,            \* reporter.rs: number of dupes of the group processed
  labels,        \* printed lines: <<group, label, path>>
  answers,       \* <<group, line read from stdin>>, one per prompt
  attempted,     \* paths passed to fs::remove_file
  delErrors,     \* paths with an "Error deleting" line on stderr
  deleted_count, deleted_bytes,
  totals,        \* the "Found ..." line: groups, dupes, wasted bytes
  out            \* other lines on stdout

vars == <<fs, rootOk, removed, digestSpace, min_size, dry_run, force, pc,
          files, size_groups, candidates, hi, hash_groups, warned, order,
          gi, di, labels, answers, attempted, delErrors, deleted_count,
          deleted_bytes, totals, out>>

\* ------------------------------------------------------------- helpers
Range(s) == {s[k] : k \in DOMAIN s}

Min(a, b) == IF a < b THEN a ELSE b

EmptyMap == [k \in {} |-> <<>>]

\* HashMap::entry(k).or_default().push(v)
EntryPush(m, k, v) ==
  IF k \in DOMAIN m THEN [m EXCEPT ![k] = Append(@, v)] ELSE m @@ (k :> <<v>>)

\* All iteration orders of a hash map's key set.
Orderings(S) ==
  {s \in [1..Cardinality(S) -> S] : \A a, b \in DOMAIN s : a # b => s[a] # s[b]}

RECURSIVE Flatten(_)
Flatten(ss) == IF ss = <<>> THEN <<>> ELSE Head(ss) \o Flatten(Tail(ss))

RECURSIVE SumSeq(_)
SumSeq(s) == IF s = <<>> THEN 0 ELSE Head(s) + SumSeq(Tail(s))

\* ---------------------------------------------------------- file system
IsFile(p) == fs[p].kind = "file" /\ p \notin removed

\* path.metadata(): Ok(len) for an existing regular file.
MetadataOk(p) == IsFile(p)
MetadataLen(p) == Len(fs[p].data)

\* ------------------------------------------------------------ hasher.rs
\* hasher.update(chunk): fold every byte of the chunk into the running state.
RECURSIVE Update(_, _, _)
Update(h, chunk, space) ==
  IF chunk = <<>> THEN h
  ELSE Update((h * Radix + Head(chunk) + 1) % space, Tail(chunk), space)

\* The read loop of hash_file: chunks of at most BufSize bytes until a read
\* returns 0 bytes.
RECURSIVE ReadLoop(_, _, _)
ReadLoop(h, rest, space) ==
  LET bytes_read == Min(BufSize, Len(rest)) IN
  IF bytes_read = 0 THEN h
  ELSE ReadLoop(Update(h, SubSeq(rest, 1, bytes_read), space),
                SubSeq(rest, bytes_read + 1, Len(rest)), space)

\* Mutant: the bytes read are never fed to the hasher.
hash_file_noUpdate(p) == ReadLoop(0, <<>>, digestSpace)

\* hash_file on a readable file: the digest of its whole content.
hash_file(p) == ReadLoop(0, fs[p].data, digestSpace)

\* A digest space as large as the content space: no two contents collide.
WideDigest == Radix ^ (MaxLen + 1)

\* ----------------------------------------------------------- scanner.rs
\* Mutant: the size threshold is not applied.
RECURSIVE ScanFrom_noMin(_, _)
ScanFrom_noMin(p, acc) ==
  IF p > NumPaths THEN acc
  ELSE ScanFrom_noMin(p + 1,
         IF fs[p].kind # "err" /\ IsFile(p) /\ MetadataOk(p)
         THEN Append(acc, p) ELSE acc)

\* Mutant: the walk stops at the first entry it cannot stat.
RECURSIVE ScanFrom_abort(_, _)
ScanFrom_abort(p, acc) ==
  IF p > NumPaths \/ fs[p].kind = "err" THEN acc
  ELSE ScanFrom_abort(p + 1,
         IF IsFile(p) /\ MetadataOk(p) /\ MetadataLen(p) >= min_size
         THEN Append(acc, p) ELSE acc)

RECURSIVE ScanFrom(_, _)
ScanFrom(p, acc) ==
  IF p > NumPaths THEN acc
  ELSE ScanFrom(p + 1,
         IF fs[p].kind # "err" /\ IsFile(p) /\ MetadataOk(p)
            /\ MetadataLen(p) >= min_size
         THEN Append(acc, p) ELSE acc)

\* WalkDir::new(root) yields a single error when the root is inaccessible;
\* filter_map(|e| e.ok()) drops it.
scan_files == IF rootOk THEN ScanFrom(1, <<>>) ELSE <<>>

ScanFiles ==
  /\ pc = "scan"
  /\ files' = scan_files
  /\ pc' = "phase1"
  /\ UNCHANGED <<fs, rootOk, removed, digestSpace, min_size, dry_run, force,
                 size_groups, candidates, hi, hash_groups, warned, order, gi,
                 di, labels, answers, attempted, delErrors, deleted_count,
                 deleted_bytes, totals, out>>

\* ------------------------------------------------ find_duplicates, phase 1
RECURSIVE GroupBySize(_, _)
GroupBySize(fl, acc) ==
  IF fl = <<>> THEN acc
  ELSE GroupBySize(Tail(fl),
         IF MetadataOk(Head(fl))
         THEN EntryPush(acc, MetadataLen(Head(fl)), Head(fl)) ELSE acc)

Phase1 ==
  /\ pc = "phase1"
  /\ size_groups' = GroupBySize(files, EmptyMap)
  /\ pc' = "select"
  /\ UNCHANGED <<fs, rootOk, removed, digestSpace, min_size, dry_run, force,
                 files, candidates, hi, hash_groups, warned, order, gi, di,
                 labels, answers, attempted, delErrors, deleted_count,
                 deleted_bytes, totals, out>>

\* Mutant: only the first size bucket of the iteration is taken.
CandidatesIn_firstOnly(ord) ==
  IF ord # <<>> /\ Len(size_groups[ord[1]]) > 1 THEN size_groups[ord[1]] ELSE <<>>

\* Mutant: buckets of a single file are not filtered out.
CandidatesIn_noFilter(ord) == Flatten([k \in DOMAIN ord |-> size_groups[ord[k]]])

\* size_groups.values().filter(|g| g.len() > 1).flatten().collect()
CandidatesIn(ord) ==
  Flatten([k \in DOMAIN ord |->
             IF Len(size_groups[ord[k]]) > 1 THEN size_groups[ord[k]] ELSE <<>>])

SelectCandidates ==
  /\ pc = "select"
  /\ \E ord \in Orderings(DOMAIN size_groups) : candidates' = CandidatesIn(ord)
  /\ hi' = 0
  /\ pc' = "hash"
  /\ UNCHANGED <<fs, rootOk, removed, digestSpace, min_size, dry_run, force,
                 files, size_groups, hash_groups, warned, order, gi, di,
                 labels, answers, attempted, delErrors, deleted_count,
                 deleted_bytes, totals, out>>

\* ------------------------------------------------ find_duplicates, phase 2
\* One iteration of the hashing loop: hash_file succeeds, or fails with an
\* I/O error (file cannot be opened or read).
OnHashOk(p) ==
  /\ hash_groups' = EntryPush(hash_groups, hash_file(p), p)
  /\ hi' = hi + 1
  /\ UNCHANGED warned

\* Mutant: the first hash failure ends the loop.
OnHashErr_abort(p) ==
  /\ warned' = warned \cup {p}
  /\ hi' = Len(candidates)
  /\ UNCHANGED hash_groups

OnHashErr(p) ==
  /\ warned' = warned \cup {p}
  /\ hi' = hi + 1
  /\ UNCHANGED hash_groups

HashNext ==
  /\ pc = "hash"
  /\ hi < Len(candidates)
  /\ LET p == candidates[hi + 1] IN OnHashOk(p) \/ OnHashErr(p)
  /\ UNCHANGED <<fs, rootOk, removed, digestSpace, min_size, dry_run, force,
                 pc, files, size_groups, candidates, order, gi, di, labels,
                 answers, attempted, delErrors, deleted_count, deleted_bytes,
                 totals, out>>

\* Mutant: groups of a single member are kept.
Retained_all(m) == [h \in {k \in DOMAIN m : Len(m[k]) > 0} |-> m[h]]

\* hash_groups.retain(|_, paths| paths.len() > 1)
Retained(m) == [h \in {k \in DOMAIN m : Len(m[k]) > 1} |-> m[h]]

\* Mutant: find_duplicates may return before the hashing loop is over.
Retain_early ==
  /\ pc = "hash"
  /\ hash_groups' = Retained(hash_groups)
  /\ pc' = "report"
  /\ UNCHANGED <<fs, rootOk, removed, digestSpace, min_size, dry_run, force,
                 files, size_groups, candidates, hi, warned, order, gi, di,
                 labels, answers, attempted, delErrors, deleted_count,
                 deleted_bytes, totals, out>>

Retain ==
  /\ pc = "hash"
  /\ hi = Len(candidates)
  /\ hash_groups' = Retained(hash_groups)
  /\ pc' = "report"
  /\ UNCHANGED <<fs, rootOk, removed, digestSpace, min_size, dry_run, force,
                 files, size_groups, candidates, hi, warned, order, gi, di,
                 labels, answers, attempted, delErrors, deleted_count,
                 deleted_bytes, totals, out>>

\* ---------------------------------------------------------- reporter.rs
\* paths[0].metadata().map(|m| m.len()).unwrap_or(0)
GroupSize(paths) == IF MetadataOk(paths[1]) THEN MetadataLen(paths[1]) ELSE 0

\* Mutant: the last member is spared instead of the first.
Dupes_keepLast(paths) == SubSeq(paths, 1, Len(paths) - 1)

\* Mutant: the slice starts at the kept member.
Dupes_all(paths) == paths

\* let dupes = &paths[1..]
Dupes(paths) == SubSeq(paths, 2, Len(paths))

total_groups(dups) == Cardinality(DOMAIN dups)

\* Mutant: every member is counted as an extra file.
total_dupes_members(dups, ord) == SumSeq([k \in DOMAIN ord |-> Len(dups[ord[k]])])

total_dupes(dups, ord) == SumSeq([k \in DOMAIN ord |-> Len(dups[ord[k]]) - 1])

wasted_bytes(dups, ord) ==
  SumSeq([k \in DOMAIN ord |->
            GroupSize(dups[ord[k]]) * (Len(dups[ord[k]]) - 1)])

\* The early return on an empty map, else the totals line; the iteration
\* order of the map is fixed here for the rest of the run.
ReportStart ==
  /\ pc = "report"
  /\ \/ /\ DOMAIN hash_groups = {}
        /\ out' = out \cup {<<"No duplicates found!">>}
        /\ pc' = "done"
        /\ UNCHANGED <<order, totals, gi>>
     \/ /\ DOMAIN hash_groups # {}
        /\ \E ord \in Orderings(DOMAIN hash_groups) :
             /\ order' = ord
             /\ totals' = <<total_groups(hash_groups),
                            total_dupes(hash_groups, ord),
                            wasted_bytes(hash_groups, ord)>>
        /\ gi' = 1
        /\ pc' = "group"
        /\ UNCHANGED out
  /\ UNCHANGED <<fs, rootOk, removed, digestSpace, min_size, dry_run, force,
                 files, size_groups, candidates, hi, hash_groups, warned, di,
                 labels, answers, attempted, delErrors, deleted_count,
                 deleted_bytes>>

CurPaths == hash_groups[order[gi]]

\* The [keep] / [dupe] lines of one group.
GroupLabels(g, paths) ==
  {<<g, IF j = 1 THEN "keep" ELSE "dupe", paths[j]>> : j \in DOMAIN paths}

\* Head of one loop iteration: print the group, then `continue` on dry-run,
\* else enter the forced loop or the prompt.
\* Mutant: force is tested before dry-run.
AfterShow_forceFirst ==
  IF force THEN (IF Dupes(CurPaths) = <<>> THEN "next" ELSE "force_delete")
  ELSE IF dry_run THEN "next"
  ELSE "prompt"

AfterShow ==
  IF dry_run THEN "next"
  ELSE IF force THEN (IF Dupes(CurPaths) = <<>> THEN "next" ELSE "force_delete")
  ELSE "prompt"

ShowGroup ==
  /\ pc = "group"
  /\ gi <= Len(order)
  /\ labels' = labels \cup GroupLabels(gi, CurPaths)
  /\ di' = 0
  /\ IF AfterShow = "next"
     THEN gi' = gi + 1 /\ pc' = "group"
     ELSE gi' = gi /\ pc' = AfterShow
  /\ UNCHANGED <<fs, rootOk, removed, digestSpace, min_size, dry_run, force,
                 files, size_groups, candidates, hi, hash_groups, warned,
                 order, answers, attempted, delErrors, deleted_count,
                 deleted_bytes, totals, out>>

\* Lines read_line can leave in `input`; <<>> is end of input.
Inputs ==
  { <<>>, <<"\n">>, <<" ", "Y", "\n">>, <<"n", "\n">>, <<"y", "e", "s", "\n">> }

IsSpace(c) == c \in {" ", "\n", "\t", "\r"}

RECURSIVE TrimStart(_)
TrimStart(s) ==
  IF s # <<>> /\ IsSpace(Head(s)) THEN TrimStart(Tail(s)) ELSE s

RECURSIVE TrimEnd(_)
TrimEnd(s) ==
  IF s # <<>> /\ IsSpace(s[Len(s)]) THEN TrimEnd(SubSeq(s, 1, Len(s) - 1)) ELSE s

Trim(s) == TrimEnd(TrimStart(s))

ToAsciiLower(c) == IF c = "Y" THEN "y" ELSE IF c = "N" THEN "n" ELSE c

\* Mutant: an empty answer counts as yes.
Affirmative_emptyYes(input) ==
  LET t == Trim(input) IN t = <<>> \/ (Len(t) = 1 /\ ToAsciiLower(t[1]) = "y")

\* input.trim().eq_ignore_ascii_case("y")
Affirmative(input) ==
  LET t == Trim(input) IN Len(t) = 1 /\ ToAsciiLower(t[1]) = "y"

Prompt ==
  /\ pc = "prompt"
  /\ \E input \in Inputs :
       /\ answers' = Append(answers, <<gi, input>>)
       /\ IF Affirmative(input) /\ Dupes(CurPaths) # <<>>
          THEN /\ pc' = "confirmed_delete"
               /\ UNCHANGED <<gi, out>>
          ELSE /\ pc' = "group"
               /\ gi' = gi + 1
               /\ out' = IF Affirmative(input) THEN out
                         ELSE out \cup {<<"Skipped.", gi>>}
  /\ UNCHANGED <<fs, rootOk, removed, digestSpace, min_size, dry_run, force,
                 files, size_groups, candidates, hi, hash_groups, warned,
                 order, di, labels, attempted, delErrors, deleted_count,
                 deleted_bytes, totals>>

\* One iteration of `for dupe in dupes { match fs::remove_file(dupe) ... }`:
\* Ok(()) bumps both counters by one file and the group's size, Err(e) only
\* prints.  The last iteration moves on to the next group.
RemoveOk(size) ==
  /\ deleted_count' = deleted_count + 1
  /\ deleted_bytes' = deleted_bytes + size

\* Mutant: a failed removal is counted like a successful one.
RemoveErr_counted(p) ==
  /\ delErrors' = delErrors \cup {p}
  /\ deleted_count' = deleted_count + 1
  /\ deleted_bytes' = deleted_bytes + GroupSize(CurPaths)

RemoveErr(p) ==
  /\ delErrors' = delErrors \cup {p}
  /\ UNCHANGED <<deleted_count, deleted_bytes>>

DeleteStep ==
  LET paths == CurPaths
      dupe == Dupes(paths)[di + 1]
      size == GroupSize(paths) IN
  /\ di < Len(Dupes(paths))
  /\ attempted' = attempted \cup {dupe}
  /\ \/ /\ IsFile(dupe)
        /\ removed' = removed \cup {dupe}
        /\ RemoveOk(size)
        /\ UNCHANGED delErrors
     \/ /\ RemoveErr(dupe)
        /\ UNCHANGED removed
  /\ IF di + 1 = Len(Dupes(paths))
     THEN gi' = gi + 1 /\ di' = 0 /\ pc' = "group"
     ELSE gi' = gi /\ di' = di + 1 /\ pc' = pc
  /\ UNCHANGED <<fs, rootOk, digestSpace, min_size, dry_run, force, files,
                 size_groups, candidates, hi, hash_groups, warned, order,
                 labels, answers, totals, out>>

\* reporter.rs, the loop under `if force`.
ForceDelete == pc = "force_delete" /\ DeleteStep

\* reporter.rs, the loop under an affirmative answer.
ConfirmedDelete == pc = "confirmed_delete" /\ DeleteStep

\* Mutant: the summary is printed only when no removal failed.
Summary_noErrors ==
  IF ~dry_run /\ deleted_count > 0 /\ delErrors = {}
  THEN {<<"Cleaned up", deleted_count, deleted_bytes>>} ELSE {}

\* if !dry_run && deleted_count > 0 { println!("Cleaned up ...") }
Summary ==
  IF ~dry_run /\ deleted_count > 0
  THEN {<<"Cleaned up", deleted_count, deleted_bytes>>} ELSE {}

\* Mutant: the loop over the groups may end before the last group.
Finish_early ==
  /\ pc = "group"
  /\ out' = out \cup Summary
  /\ pc' = "done"
  /\ UNCHANGED <<fs, rootOk, removed, digestSpace, min_size, dry_run, force,
                 files, size_groups, candidates, hi, hash_groups, warned,
                 order, gi, di, labels, answers, attempted, delErrors,
                 deleted_count, deleted_bytes, totals>>

\* After the last group: the clean-up summary.
Finish ==
  /\ pc = "group"
  /\ gi > Len(order)
  /\ out' = out \cup Summary
  /\ pc' = "done"
  /\ UNCHANGED <<fs, rootOk, removed, digestSpace, min_size, dry_run, force,
                 files, size_groups, candidates, hi, hash_groups, warned,
                 order, gi, di, labels, answers, attempted, delErrors,
                 deleted_count, deleted_bytes, totals>>

\* ----------------------------------------------------------------- init
\* Entries are interchangeable up to renaming, so one representative of each
\* renaming class is taken: entries in non-decreasing rank along the walk.
Rank(e) ==
  CASE e.kind = "err" -> 0
    [] e.kind = "dir" -> 1
    [] OTHER -> 2 + Update(0, e.data, WideDigest)

InitCommon ==
  /\ fs \in {f \in [Paths -> Entries] :
               \A p, q \in Paths : p < q => Rank(f[p]) <= Rank(f[q])}
  /\ rootOk \in BOOLEAN
  \* nothing under an inaccessible root can be stat'ed
  /\ ~rootOk => \A p \in Paths : fs[p].kind = "err"
  /\ removed = {}
  /\ min_size \in 0..MaxMinSize
  /\ dry_run \in BOOLEAN
  /\ force \in BOOLEAN
  /\ pc = "scan"
  /\ files = <<>>
  /\ size_groups = EmptyMap
  /\ candidates = <<>>
  /\ hi = 0
  /\ hash_groups = EmptyMap
  /\ warned = {}
  /\ order = <<>>
  /\ gi = 0
  /\ di = 0
  /\ labels = {}
  /\ answers = <<>>
  /\ attempted = {}
  /\ delErrors = {}
  /\ deleted_count = 0
  /\ deleted_bytes = 0
  /\ totals = <<>>
  /\ out = {}

Init == InitCommon /\ digestSpace = WideDigest

Next ==
  \/ ScanFiles
  \/ Phase1
  \/ SelectCandidates
  \/ HashNext
  \/ Retain
  \/ ReportStart
  \/ ShowGroup
  \/ Prompt
  \/ ForceDelete
  \/ ConfirmedDelete
  \/ Finish

Spec == Init /\ [][Next]_vars

\* The same program over a digest with few values, where contents collide.
InitCollide == InitCommon /\ digestSpace = NarrowDigest

SpecCollide == InitCollide /\ [][Next]_vars

\* The program keeps running, and every read_line returns (a line or end of
\* input): no step that is possible is postponed for ever.
FairSpec == Spec /\ WF_vars(Next)

\* ================================================================ properties
Content(p) == fs[p].data
Size(p) == Len(fs[p].data)
Scanned == Range(files)

\* find_duplicates has returned: hash_groups is the map handed to the reporter.
Returned == pc \in {"report", "group", "prompt", "force_delete",
                    "confirmed_delete", "done"}

Members(h) == Range(hash_groups[h])
Groups == {Members(h) : h \in DOMAIN hash_groups}
Grouped == UNION Groups
SameGroup(p, q) == \E h \in DOMAIN hash_groups : {p, q} \subseteq Members(h)

\* C1: when every scanned file is readable, two scanned files with identical
\* content are in the same duplicate group, and two scanned files of
\* identical size but differing content are never in the same group.
C1_IdenticalContentGrouped ==
  (Returned /\ warned = {}) =>
    LET G == Groups IN
    \A p, q \in Scanned :
      p # q =>
        LET together == \E g \in G : p \in g /\ q \in g IN
        /\ Content(p) = Content(q) => together
        /\ (Size(p) = Size(q) /\ Content(p) # Content(q)) => ~together

\* Two identical files and a third of the same size with other content.
C1_Witness ==
  /\ Returned /\ warned = {}
  /\ \E p, q, r \in Scanned :
       /\ p # q /\ Content(p) = Content(q) /\ SameGroup(p, q)
       /\ Size(r) = Size(p) /\ Content(r) # Content(p) /\ ~SameGroup(p, r)

GroupBytes(h) == Size(hash_groups[h][1]) * (Len(hash_groups[h]) - 1)

\* Sum over the groups H of size * (members - 1), sizes taken from the files.
RECURSIVE SumGroupBytes(_)
SumGroupBytes(H) ==
  IF H = {} THEN 0
  ELSE LET h == CHOOSE x \in H : TRUE IN GroupBytes(h) + SumGroupBytes(H \ {h})

Kept(h) == hash_groups[h][1]
DupeSet(h) == {hash_groups[h][j] : j \in 2..Len(hash_groups[h])}

ForcedRun == force /\ ~dry_run
ForcedOutcome ==
  /\ \A h \in DOMAIN hash_groups :
       /\ Cardinality(Members(h) \cap removed) = Len(hash_groups[h]) - 1
       /\ Kept(h) \notin removed
  /\ deleted_bytes = SumGroupBytes(DOMAIN hash_groups)

C3_DryRunDeletesNothing ==
  dry_run => (removed = {} /\ attempted = {} /\ answers = <<>>
              /\ pc \notin {"prompt", "force_delete", "confirmed_delete"})

\* A finished dry run with force set that listed two groups.
C3_Witness ==
  /\ dry_run /\ force /\ pc = "done"
  /\ Cardinality(DOMAIN hash_groups) >= 2
  /\ \A h \in DOMAIN hash_groups : \E g \in DOMAIN order :
       <<g, "dupe", hash_groups[h][2]>> \in labels

\* Paths handed to hash_file so far.
Hashed == {candidates[k] : k \in 1..hi}

BelowMin(p) == fs[p].kind = "file" /\ Size(p) < min_size

\* C4: a file smaller than min_size is never in the scan result, never
\* hashed and never in a duplicate group.
C4_BelowMinExcluded ==
  \A p \in Paths :
    BelowMin(p) =>
      /\ p \notin Scanned
      /\ p \notin Range(candidates) /\ p \notin Hashed
      /\ \A k \in DOMAIN size_groups : p \notin Range(size_groups[k])
      /\ p \notin Grouped

\* Two identical files below the threshold next to a group of larger files.
C4_Witness ==
  /\ pc = "done"
  /\ \E p, q \in Paths :
       p # q /\ BelowMin(p) /\ BelowMin(q) /\ Content(p) = Content(q)
  /\ Groups # {}

InteractiveRun == ~dry_run /\ ~force

\* The answers that are an explicit yes: y or Y between blanks.
ExplicitYes == {<<"y", "\n">>, <<"Y", "\n">>, <<" ", "y", "\n">>, <<" ", "Y", "\n">>}

\* Groups (by position in the iteration order) whose prompt was answered yes.
YesGroups == {answers[k][1] : k \in {j \in DOMAIN answers : answers[j][2] \in ExplicitYes}}

\* Groups whose iteration of the resolver loop is over.
GroupDone(g) == g < gi \/ pc = "done"

\* C5: in interactive mode every group is prompted for exactly once, in turn;
\* removal is attempted on all dupes of a group answered with an explicit
\* yes and on no member of a group answered otherwise (empty line and end of
\* input included), so no finished group is left partly attempted.
C5_PromptOncePerGroup ==
  InteractiveRun =>
    /\ \A k \in DOMAIN answers : answers[k][1] = k
    /\ \A g \in DOMAIN order :
         /\ GroupDone(g) => g \in DOMAIN answers
         /\ (GroupDone(g) /\ g \in YesGroups) => DupeSet(order[g]) \subseteq attempted
         /\ g \notin YesGroups => Members(order[g]) \cap attempted = {}
         /\ Kept(order[g]) \notin attempted
    /\ pc = "done" => Len(answers) = Len(order)
    /\ pc = "prompt" => Len(answers) = gi - 1

\* Two groups: one answered yes and attempted, one ended by end of input.
C5_Witness ==
  /\ InteractiveRun /\ pc = "done" /\ Len(order) = 2
  /\ \E g, g2 \in DOMAIN order :
       /\ g \in YesGroups /\ DupeSet(order[g]) \subseteq attempted
       /\ answers[g2][2] = <<>> /\ Members(order[g2]) \cap attempted = {}

RECURSIVE SumSizes(_)
SumSizes(S) ==
  IF S = {} THEN 0
  ELSE LET x == CHOOSE y \in S : TRUE IN Size(x) + SumSizes(S \ {x})

AllDupes(G) == UNION {DupeSet(order[g]) : g \in G}

\* C6: a failed removal bumps neither counter; the counters are exactly the
\* number and total size of the files removed; and removal is still
\* attempted on every other dupe the mode selects, in the same group and in
\* later groups.
C6_DeleteFailureIsolated ==
  /\ deleted_count = Cardinality(removed)
  /\ deleted_bytes = SumSizes(removed)
  /\ removed \cap delErrors = {}
  /\ attempted = removed \cup delErrors
  /\ (pc = "done" /\ ForcedRun) => attempted = AllDupes(DOMAIN order)
  /\ (pc = "done" /\ InteractiveRun) => attempted = AllDupes(YesGroups)

\* A removal fails in one group and a removal in a later group succeeds.
C6_Witness ==
  /\ pc = "done"
  /\ \E g, g2 \in DOMAIN order :
       /\ g < g2
       /\ DupeSet(order[g]) \cap delErrors # {}
       /\ DupeSet(order[g2]) \cap removed # {}
  /\ deleted_count = Cardinality(removed) /\ deleted_count < Cardinality(attempted)

\* C7: a candidate that cannot be hashed gets a warning and is in no group;
\* the loop still processes every candidate, and the readable candidates
\* with identical content end up in one group.
C7_HashFailureIsolated ==
  /\ warned \subseteq Hashed
  /\ Returned =>
       /\ warned \cap Grouped = {}
       /\ hi = Len(candidates)
       /\ LET G == Groups IN
          \A p, q \in Range(candidates) \ warned :
            (p # q /\ Content(p) = Content(q)) => \E g \in G : p \in g /\ q \in g

\* Three files of one size: the first one hashed fails, the two hashed after
\* it form a group.
C7_Witness ==
  /\ Returned
  /\ \E i, j, k \in DOMAIN candidates :
       /\ i < j /\ j < k
       /\ candidates[i] \in warned
       /\ Size(candidates[i]) = Size(candidates[j])
       /\ SameGroup(candidates[j], candidates[k])

\* The grouping as a function of the input alone: the tree, the threshold,
\* and which files cannot be read.
ExpectedScanned ==
  {p \in Paths : rootOk /\ fs[p].kind = "file" /\ Size(p) >= min_size}

ExpectedGroups ==
  LET S == ExpectedScanned
      C == {p \in S : \E q \in S : q # p /\ Size(q) = Size(p)}
      L == C \ warned
      Class == [p \in L |-> {q \in L : Content(q) = Content(p)}]
  IN {Class[p] : p \in {x \in L : Cardinality(Class[x]) >= 2}}

\* C8: the membership sets of the groups are determined by the files and
\* their contents, whatever the iteration order of the size buckets and the
\* order of hashing.
C8_GroupsOrderIndependent == Returned => Groups = ExpectedGroups

\* Two groups found with the size buckets visited in descending path order.
C8_Witness ==
  /\ Returned
  /\ Cardinality(Groups) = 2
  /\ candidates[1] > candidates[Len(candidates)]

Shown(g) == \E l \in labels : l[1] = g

\* C9: every group returned by find_duplicates has at least 2 members, and
\* every group the resolver prints has its first member labelled keep and at
\* least one member labelled dupe.
C9_GroupsHaveTwoMembers ==
  Returned =>
    /\ \A h \in DOMAIN hash_groups : Len(hash_groups[h]) >= 2
    /\ \A g \in DOMAIN order :
         Shown(g) =>
           /\ <<g, "keep", Kept(order[g])>> \in labels
           /\ \E p \in Paths : <<g, "dupe", p>> \in labels /\ p # Kept(order[g])

\* A group was printed while a hashed file with a digest of its own was
\* discarded.
C9_Witness ==
  /\ pc = "done"
  /\ \E g \in DOMAIN order : Shown(g)
  /\ \E p \in Hashed \ warned : p \notin Grouped

\* C10: all members of a duplicate group have the same size, also when the
\* digests of contents of different sizes collide.
C10_GroupMembersSameSize ==
  Returned =>
    \A h \in DOMAIN hash_groups :
      \A p, q \in Members(h) : Size(p) = Size(q)

SummaryLines == {l \in out : l[1] = "Cleaned up"}

\* C11 as stated: every finished run with at least one group that is not a
\* dry run has printed the clean-up summary.
C11_Original ==
  (pc = "done" /\ ~dry_run /\ DOMAIN hash_groups # {}) => SummaryLines # {}

\* C11 amended: the summary is printed only once all groups are processed,
\* and then exactly when at least one file was deleted, with the final
\* counters, also when other removals failed.
C11_SummaryIffDeleted ==
  /\ pc # "done" => SummaryLines = {}
  /\ (pc = "done" /\ ~dry_run /\ DOMAIN hash_groups # {}) =>
       /\ deleted_count > 0 => SummaryLines = {<<"Cleaned up", deleted_count, deleted_bytes>>}
       /\ deleted_count = 0 => SummaryLines = {}

\* A run in which one removal failed and another succeeded.
C11_Witness ==
  /\ pc = "done" /\ ~dry_run
  /\ delErrors # {} /\ removed # {}
  /\ SummaryLines # {}

\* C12: a run whose root path cannot be accessed does not complete normally
\* (and does not report an empty result).
C12_RootFailureIsFatal ==
  ~rootOk => (pc # "done" /\ <<"No duplicates found!">> \notin out)

HasSizeTwin(p) == \E q \in Scanned \ {p} : Size(q) = Size(p)

\* C13: no content is read before the size partition is complete; only files
\* that share their size with another scanned file are hashed, each once;
\* and every such file is hashed.
C13_OnlySizeTwinsHashed ==
  /\ pc \in {"scan", "phase1", "select"} => hi = 0 /\ candidates = <<>>
  /\ \A k \in DOMAIN candidates : HasSizeTwin(candidates[k])
  /\ \A j, k \in DOMAIN candidates : j # k => candidates[j] # candidates[k]
  /\ Returned => Hashed = {p \in Scanned : HasSizeTwin(p)}

\* Some files were hashed and a scanned file of a size of its own was not.
C13_Witness ==
  /\ Returned
  /\ Hashed # {}
  /\ \E p \in Scanned : ~HasSizeTwin(p) /\ p \notin Hashed

Resolving == pc \in {"prompt", "force_delete", "confirmed_delete"}

\* C14: nothing is removed, no removal is attempted and no prompt is issued
\* before find_duplicates has returned, and by then every candidate has been
\* through the hashing loop, so every hash precedes every delete.
C14_HashingBeforeDeleting ==
  /\ ~Returned => (removed = {} /\ attempted = {} /\ answers = <<>>)
  /\ (Resolving \/ attempted # {} \/ answers # <<>>) =>
       (Returned /\ hi = Len(candidates))

\* A removal and a prompt in a run that hashed files.
C14_Witness ==
  /\ removed # {} /\ answers # <<>>
  /\ Hashed # {} /\ hi = Len(candidates)

\* C15: the scan result is exactly the regular files of the tree at or above
\* min_size, each once, whatever entries around them cannot be stat'ed.
C15_BadEntriesSkipped ==
  pc # "scan" =>
    /\ Scanned = ExpectedScanned
    /\ Len(files) = Cardinality(Scanned)

\* An entry that cannot be stat'ed, and a file after it in the walk that is
\* in the scan result.
C15_Witness ==
  /\ pc # "scan"
  /\ \E p, q \in Paths : p < q /\ fs[p].kind = "err" /\ q \in Scanned

\* C16: in every mode the first member of a group is never passed to
\* remove_file and stays on disk; no path is in two groups or twice in one;
\* so a copy of every group's content remains.
C16_KeptNeverDeleted ==
  Returned =>
    /\ \A h \in DOMAIN hash_groups :
         /\ Kept(h) \notin attempted
         /\ IsFile(Kept(h))
         /\ Cardinality(Members(h)) = Len(hash_groups[h])
         /\ \E p \in Members(h) : p \notin removed /\ Content(p) = Content(Kept(h))
    /\ \A h1, h2 \in DOMAIN hash_groups :
         h1 # h2 => Members(h1) \cap Members(h2) = {}

\* Two groups resolved, with one removal done and one failed.
C16_Witness ==
  /\ pc = "done" /\ Len(order) = 2
  /\ removed # {} /\ delErrors # {}
  /\ \A g \in DOMAIN order : DupeSet(order[g]) \subseteq attempted

\* Sum over the groups H of members - 1.
RECURSIVE SumGroupDupes(_)
SumGroupDupes(H) ==
  IF H = {} THEN 0
  ELSE LET h == CHOOSE x \in H : TRUE
       IN (Len(hash_groups[h]) - 1) + SumGroupDupes(H \ {h})

\* C17: the totals line is printed before any removal is attempted; it gives
\* the number of groups, the sum of members - 1 and the sum of
\* size * (members - 1); a forced run without delete failure ends with
\* deleted count and bytes freed equal to the last two.
C17_TotalsBeforeDeletion ==
  /\ totals = <<>> => (attempted = {} /\ removed = {})
  /\ totals # <<>> =>
       totals = <<Cardinality(DOMAIN hash_groups),
                  SumGroupDupes(DOMAIN hash_groups),
                  SumGroupBytes(DOMAIN hash_groups)>>
  /\ (pc = "done" /\ ForcedRun /\ delErrors = {} /\ totals # <<>>) =>
       (deleted_count = totals[2] /\ deleted_bytes = totals[3])

\* A forced run over two groups without delete failure.
C17_Witness ==
  /\ pc = "done" /\ ForcedRun /\ delErrors = {}
  /\ totals # <<>> /\ totals[1] = 2 /\ totals[3] > 0
  /\ deleted_count = totals[2]

AllGroupsProcessed ==
  /\ \A h \in DOMAIN hash_groups : \E g \in DOMAIN order : order[g] = h /\ Shown(g)
  /\ \A g, g2 \in DOMAIN order : g # g2 => order[g] # order[g2]
  /\ DOMAIN hash_groups # {} => gi = Len(order) + 1

\* C18: every run ends; when it has ended every group has been through the
\* resolver loop, whatever failed or was declined before it; and the loop
\* visits the groups one after the other, never going back.
C18_TerminatesAllGroups ==
  /\ <>(pc = "done")
  /\ [](pc = "done" => AllGroupsProcessed)
  /\ [][gi' = gi \/ gi' = gi + 1]_vars

\* An interactive run that ended after a declined first group, a failed
\* removal and a second group.
C18_Witness ==
  /\ pc = "done" /\ InteractiveRun /\ Len(order) = 2
  /\ 1 \notin YesGroups /\ Shown(2)
  /\ delErrors # {}
====
